---- MODULE Spec2Model ----
(***************************************************************************)
(* poarder: a podcast RSS downloader (src/src/main.rs).                    *)
(*                                                                         *)
(* Modelled are:                                                           *)
(*   - the download pipeline of main(): stream::iter(episodes).map(spawn)  *)
(*     .buffer_unordered(task_count).for_each(commit), together with the   *)
(*     output directory it writes to (Spec, SpecRuns);                     *)
(*   - the feed parser parse_rss / parse_item (SpecParse, SpecItem);       *)
(*   - episode_to_filename (SpecName);                                     *)
(*   - main() from the feed fetch to the exit of the process (SpecMain).   *)
(* Strings are sequences of one-character strings, file contents and       *)
(* payloads are sequences of bytes.                                        *)
(***************************************************************************)
EXTENDS Integers, Sequences, FiniteSets, TLC

(***************************************************************************)
(* Bounds of the model.                                                    *)
(***************************************************************************)
\* longest feed (number of parsed episodes) handed to the pipeline
NumEpisodes == 2
\* largest --task-count explored
MaxTasks == 2
\* most failures the environment produces in one behaviour: fetches that
\* do not bring the media file, aborted tasks, failed file operations
MaxFaults == 1
\* most child elements of one <item> fragment
MaxItemLen == 3
\* most events parse_rss reads from the feed document before its end
MaxFeedEvents == 2
\* longest title episode_to_filename is called with, the sample title of the
\* documentation apart
MaxTitleLen == 3

(***************************************************************************)
(* Values.                                                                 *)
(***************************************************************************)
\* "no file at this path" in the directory map
NoFile == <<-1>>
\* content of a file that is in the output directory before the run
OldContent == <<9, 9, 9>>
\* the media file the server holds for each episode title, and the page it
\* sends with a non-success status
MediaOf(title) ==
    CASE title = <<":">> -> <<1, 2>>
      [] title = <<"/">> -> <<3, 4>>
      [] OTHER -> <<5, 6>>
ErrorPage == <<4, 4>>
\* the "no value yet" marker of the per-episode records
None == [kind |-> "none"]
\* the process has not exited
NoExit == -1
\* main returned Ok(()), main returned Err, main panicked
ExitOk == 0
ExitErr == 1
ExitPanic == 101

\* titles of the episodes handed to the pipeline: ":" and "/" sanitize to
\* the same file name, "*" to another one
TitlePool == {<<":">>, <<"/">>, <<"*">>}
TimestampPool == {0}
\* the first run of the program and a second one on the same directory
Runs == {1, 2}

\* struct Episode (raw, a copy of the item fragment, is never read)
Episode(url, title, datetime) ==
    [url |-> url, title |-> title, datetime |-> datetime]

EpisodePool ==
    {Episode(<<"u">>, t, d) : t \in TitlePool, d \in TimestampPool}

\* title texts and url attributes of the items of a feed document, and the
\* episodes parse_item makes of them
ItemTitles == {<<"a">>, <<>>}
ItemUrls == {<<"u">>, <<>>}
ParsedEpisodePool ==
    {Episode(u, t, d) : u \in ItemUrls, t \in ItemTitles, d \in TimestampPool}

\* the copy of the feed document main() writes to the output directory
RssPath == <<"rss.xml">>
FeedBytes == <<7, 7>>

(***************************************************************************)
(* episode_to_filename                                                     *)
(***************************************************************************)
RECURSIVE Replace(_, _, _)
\* str::replace(from, to) for a one-character pattern
Replace(s, from, to) ==
    IF s = <<>> THEN <<>>
    ELSE (IF Head(s) = from THEN to ELSE <<Head(s)>>)
         \o Replace(Tail(s), from, to)

DigitChar(d) ==
    CASE d = 0 -> "0" [] d = 1 -> "1" [] d = 2 -> "2" [] d = 3 -> "3"
      [] d = 4 -> "4" [] d = 5 -> "5" [] d = 6 -> "6" [] d = 7 -> "7"
      [] d = 8 -> "8" [] OTHER -> "9"

RECURSIVE NatToString(_)
NatToString(n) ==
    IF n < 10 THEN <<DigitChar(n)>>
    ELSE NatToString(n \div 10) \o <<DigitChar(n % 10)>>

\* i64::to_string
to_string(n) == IF n < 0 THEN <<"-">> \o NatToString(-n) ELSE NatToString(n)

\* a sanitizer that leaves the quotes in
SanitizeTitle_KeepQuotes(title) ==
    Replace(Replace(Replace(Replace(title,
        " ", <<"_">>), ":", <<"-">>), "/", <<"-">>), "*", <<"a">>)

\* lines 177-183
SanitizeTitle(title) ==
    Replace(Replace(Replace(Replace(Replace(Replace(title,
        " ", <<"_">>), ":", <<"-">>), "/", <<"-">>), "\"", <<>>), "'", <<>>),
        "*", <<"a">>)

\* a file name built from the timestamp alone
episode_to_filename_NoTitle(episode) ==
    LET base == to_string(episode.datetime) \o <<"-">>
    IN  <<base \o <<".part">>, base \o <<".mp3">>>>

\* (name_with_part_ext, name_with_true_ext)
episode_to_filename(episode) ==
    LET name == SanitizeTitle(episode.title)
        base == to_string(episode.datetime) \o <<"-">> \o name
    IN  <<base \o <<".part">>, base \o <<".mp3">>>>

TmpPath(episode) == episode_to_filename(episode)[1]
TruePath(episode) == episode_to_filename(episode)[2]

AllPaths ==
    UNION {{TmpPath(ep), TruePath(ep)} :
              ep \in EpisodePool \cup ParsedEpisodePool}
    \cup {RssPath}

(***************************************************************************)
(* The output directory: a map from path to content.                       *)
(***************************************************************************)
\* Path::exists
Exists(f, p) == f[p] # NoFile

\* File::options().write(true).create(true).open(p): creates an empty file
\* when there is none, keeps the content of an existing one (no truncate)
OpenFs(f, p) == IF Exists(f, p) THEN f ELSE [f EXCEPT ![p] = <<>>]

\* content after write() stored the first n bytes of data at offset 0
WriteBytes(old, data, n) ==
    [i \in 1..(IF Len(old) > n THEN Len(old) ELSE n) |->
        IF i <= n THEN data[i] ELSE old[i]]

WriteFs(f, p, data, n) == [f EXCEPT ![p] = WriteBytes(f[p], data, n)]

\* fs::rename(from, to)
RenameFs(f, from, to) == [f EXCEPT ![to] = f[from], ![from] = NoFile]

(***************************************************************************)
(* parse_item and parse_date_time.  An <item> fragment is the sequence of  *)
(* what read_event yields in the loop of parse_item: start tags with their *)
(* text or attributes, or a syntax error.                                  *)
(***************************************************************************)
ValidDate == <<"Thu, 01 Jan 1970 00:00:00 +0000">>

\* DateTime::parse_from_rfc2822, then naive_local()
parse_date_time(text) ==
    IF text = ValidDate THEN [ok |-> TRUE, datetime |-> 0] ELSE [ok |-> FALSE]

TitleElements == {[tag |-> "title", text |-> t] : t \in ItemTitles}
PubDateElements ==
    {[tag |-> "pubDate", text |-> t] : t \in {ValidDate, <<"yesterday">>}}
UrlAttr(v) == [key |-> "url", value |-> v]
TypeAttr == [key |-> "type", value |-> <<"m">>]
BadAttr == [key |-> "malformed"]
EnclosureElements ==
    {[tag |-> "enclosure", attributes |-> a] :
        a \in {<<TypeAttr, UrlAttr(<<"u">>)>>, <<UrlAttr(<<>>)>>, <<TypeAttr>>,
               <<BadAttr>>}}
OtherElements == {[tag |-> "description"]}
SyntaxErrors == {[tag |-> "error"]}

ItemEvents ==
    TitleElements \cup PubDateElements \cup EnclosureElements
    \cup OtherElements \cup SyntaxErrors

Items == UNION {[1..n -> ItemEvents] : n \in 0..MaxItemLen}

NoFields == [title |-> None, datetime |-> None, url |-> None]
Some(v) == [kind |-> "some", value |-> v]
Failure(why) == [ok |-> FALSE, why |-> why]

RECURSIVE ReadAttributes(_, _, _)
\* lines 267-273: the url attribute of an enclosure; st.url is kept when
\* there is none, an attribute that does not parse ends parse_item
ReadAttributes(attrs, i, url) ==
    IF i > Len(attrs) THEN [ok |-> TRUE, url |-> url]
    ELSE IF attrs[i].key = "malformed" THEN [ok |-> FALSE]
    ELSE ReadAttributes(attrs, i + 1,
             IF attrs[i].key = "url" THEN Some(attrs[i].value) ELSE url)

\* a final test that looks at the url alone
MissingProperties_UrlOnly(st) == st.url = None

\* line 285
MissingProperties(st) ==
    st.url = None \/ st.title = None \/ st.datetime = None

RECURSIVE ScanItem(_, _, _)
\* the loop of lines 243-283 from event i on, then lines 285-290
ScanItem(item_xml, i, st) ==
    IF i > Len(item_xml)
    THEN IF MissingProperties(st) THEN Failure("missing")
         ELSE IF st.url = None \/ st.title = None \/ st.datetime = None
              THEN Failure("panic")     \* unwrap() of a None at line 290
              ELSE [ok |-> TRUE,
                    episode |-> Episode(st.url.value, st.title.value,
                                        st.datetime.value)]
    ELSE LET ev == item_xml[i] IN
         CASE ev.tag = "title" ->
                ScanItem(item_xml, i + 1, [st EXCEPT !.title = Some(ev.text)])
           [] ev.tag = "pubDate" ->
                IF parse_date_time(ev.text).ok
                THEN ScanItem(item_xml, i + 1,
                         [st EXCEPT !.datetime =
                             Some(parse_date_time(ev.text).datetime)])
                ELSE Failure("date")
           [] ev.tag = "enclosure" ->
                LET a == ReadAttributes(ev.attributes, 1, st.url) IN
                IF a.ok THEN ScanItem(item_xml, i + 1, [st EXCEPT !.url = a.url])
                ELSE Failure("attribute")
           [] ev.tag = "error" -> Failure("xml")
           [] OTHER -> ScanItem(item_xml, i + 1, st)

parse_item(item_xml) == ScanItem(item_xml, 1, NoFields)

\* LinkedList::push_front
push_front(list, x) == <<x>> \o list

\* LinkedList::push_back
push_back(list, x) == Append(list, x)

(***************************************************************************)
(* State of the download pipeline of main().                               *)
(***************************************************************************)
VARIABLES
    episodes,          \* the list parse_rss returned, in feed order
    replace_existing,  \* args.replace_existing
    task_count,        \* args.task_count
    fs,                \* the output directory
    fs0,               \* the output directory when this run started
    run,               \* number of the current run
    main_pc,           \* "download" while for_each runs, "done" after it
    next_ep,           \* position of stream::iter in episodes
    in_progress,       \* tasks held by buffer_unordered
    wstate,            \* per episode: state of its spawned task
    response,          \* per episode: what the server answered
    result,            \* per episode: what its JoinHandle yields
    hstate,            \* per episode: position of the for_each closure
    io,                \* per episode: outcome of open / write / rename
    saw,               \* per episode: what exists() found at line 107
    fetched,           \* per episode: client.get(url).send() was issued
    log,               \* per episode: kinds of lines logged
    faults,            \* failures the environment has produced so far
    rss_pc,            \* parse_rss: "idle", "reading", "ok", "err", "panic"
    list_of_events,    \* parse_rss: the episodes collected so far
    item_pc,           \* parse_item: "idle", "called", "returned"
    item_xml,          \* parse_item: its argument
    item_result,       \* parse_item: what it returned
    outcomes,          \* what parse_item returned for each item, in order
    events_read,       \* number of events parse_rss has read
    parse_errors,      \* number of "Could not parse episode" lines
    name_pc,           \* episode_to_filename: "idle", "called", "returned"
    name_episode,      \* episode_to_filename: its argument
    name_result,       \* episode_to_filename: the pair it returned
    feed_response,     \* main: what reqwest::get(rss_url) handed back
    rss_file,          \* main: state of the task that writes rss.xml
    exit_status        \* exit status of the process, NoExit while it runs

vars == <<episodes, replace_existing, task_count, fs, fs0, run, main_pc,
          next_ep, in_progress, wstate, response, result, hstate, io, saw,
          fetched, log, faults, rss_pc, list_of_events, item_pc, item_xml,
          item_result, outcomes, events_read, parse_errors, name_pc,
          name_episode, name_result, feed_response, rss_file, exit_status>>

rss_vars == <<rss_pc, list_of_events, outcomes, events_read, parse_errors>>

item_vars == <<item_pc, item_xml, item_result>>

parser_vars == <<rss_vars, item_vars>>

name_vars == <<name_pc, name_episode, name_result>>

\* state of the functions that are looked at on their own
call_vars == <<parser_vars, name_vars>>

\* state of main() before and after the download pipeline
main_vars == <<feed_response, rss_file, exit_status>>

pipeline_vars == <<episodes, replace_existing, task_count, fs, fs0, run,
                   main_pc, next_ep, in_progress, wstate, response, result,
                   hstate, io, saw, fetched, log, faults>>

Eps == 1..Len(episodes)

\* outcome of write(): Ok(n), n bytes stored, or Err
WriteOk(n) == [kind |-> "ok", n |-> n]
WriteErr == [kind |-> "err"]
NoIo == [open |-> "none", write |-> None, rename |-> "none"]

\* what reqwest hands back for one episode: a response of any status with
\* its body, or a reqwest::Error
\* the response that brings the media file of the episode
MediaResponse(episode) ==
    [kind |-> "response", status |-> "success", body |-> MediaOf(episode.title)]

\* the environment may produce one more failure
MayFail == faults < MaxFaults

Responses(episode) ==
    {[kind |-> "response", status |-> "success", body |-> b] :
        b \in {MediaOf(episode.title), <<>>}}
    \cup {[kind |-> "response", status |-> "nonsuccess", body |-> ErrorPage],
          [kind |-> "error"]}

\* feeds of up to NumEpisodes distinct episodes
Feeds ==
    {f \in UNION {[1..n -> EpisodePool] : n \in 0..NumEpisodes} :
        \A i, j \in 1..Len(f) : i # j => f[i] # f[j]}

\* the directory before the first run: the final files of the feed are all
\* there or all missing, and so are stale temp files
Dir(feed, finals, temps) ==
    [p \in AllPaths |->
        IF \E i \in 1..Len(feed) :
              \/ finals /\ p = TruePath(feed[i])
              \/ temps /\ p = TmpPath(feed[i])
        THEN OldContent ELSE NoFile]

\* per-episode state of a run that has not polled the stream yet
FreshTasks(feed) ==
    [wstate |-> [e \in 1..Len(feed) |-> "unspawned"],
     response |-> [e \in 1..Len(feed) |-> None],
     result |-> [e \in 1..Len(feed) |-> None],
     hstate |-> [e \in 1..Len(feed) |-> "none"],
     io |-> [e \in 1..Len(feed) |-> NoIo],
     saw |-> [e \in 1..Len(feed) |-> "none"],
     fetched |-> [e \in 1..Len(feed) |-> FALSE],
     log |-> [e \in 1..Len(feed) |-> {}]]

\* parse_rss is not running
RssIdle ==
    /\ rss_pc = "idle"
    /\ list_of_events = <<>>
    /\ outcomes = <<>>
    /\ events_read = 0
    /\ parse_errors = 0

\* no call of parse_item is being looked at
ItemIdle ==
    /\ item_pc = "idle"
    /\ item_xml = <<>>
    /\ item_result = None

ParserIdle == RssIdle /\ ItemIdle

\* main() is not looked at outside the pipeline
MainIdle ==
    /\ feed_response = None
    /\ rss_file = "none"
    /\ exit_status = NoExit

\* no call of episode_to_filename is being looked at
NameIdle ==
    /\ name_pc = "idle"
    /\ name_episode = None
    /\ name_result = <<>>

Init ==
    /\ ParserIdle
    /\ NameIdle
    /\ MainIdle
    /\ episodes \in Feeds
    /\ replace_existing \in BOOLEAN
    /\ task_count \in 1..MaxTasks
    /\ \E finals, temps \in BOOLEAN : fs = Dir(episodes, finals, temps)
    /\ fs0 = fs
    /\ run = 1
    /\ main_pc = "download"
    /\ next_ep = 1
    /\ in_progress = {}
    /\ wstate = FreshTasks(episodes).wstate
    /\ response = FreshTasks(episodes).response
    /\ result = FreshTasks(episodes).result
    /\ hstate = FreshTasks(episodes).hstate
    /\ io = FreshTasks(episodes).io
    /\ saw = FreshTasks(episodes).saw
    /\ fetched = FreshTasks(episodes).fetched
    /\ log = FreshTasks(episodes).log
    /\ faults = 0

(***************************************************************************)
(* buffer_unordered(task_count) over the mapped stream (lines 99-122).     *)
(***************************************************************************)
\* a buffer that pulls from the stream whatever its queue holds
BufferHasRoom_NoCap == TRUE

\* BufferUnordered pulls from the stream while its queue is short of max
BufferHasRoom == Cardinality(in_progress) < task_count

StreamExhausted == next_ep > Len(episodes)

\* for_each polls the stream again only when the closure's future of the
\* previous item has completed; the closure has no await point
HandlerIdle == \A e \in Eps : hstate[e] \in {"none", "returned"}

\* a stream that yields only the tasks that ended with Ok
TaskReady_OkOnly(e) == wstate[e] = "finished" /\ result[e].kind = "ok"

\* the JoinHandle of e is ready, whatever it yields
TaskReady(e) == wstate[e] = "finished"

\* a task that fetches without looking at the final path
WorkerShouldFetch_Always(replace, exists) == TRUE

\* line 107
WorkerShouldFetch(replace, exists) == replace \/ ~exists

\* a closure that commits without looking at the final path
CommitShouldWrite_Always(replace, exists) == TRUE

\* line 141
CommitShouldWrite(replace, exists) == replace \/ ~exists

\* for_each polls the buffer, which pulls the next episode from the stream
CanAdmit ==
    /\ main_pc = "download"
    /\ HandlerIdle
    /\ ~StreamExhausted
    /\ BufferHasRoom

\* a stream that hands out the episodes in any order
Admit_AnyOrder ==
    /\ CanAdmit
    /\ \E e \in Eps :
        /\ wstate[e] = "unspawned"
        /\ wstate' = [wstate EXCEPT ![e] = "spawned"]
        /\ in_progress' = in_progress \cup {e}
    /\ next_ep' = next_ep + 1
    /\ UNCHANGED <<episodes, replace_existing, task_count, fs, fs0, run,
                   main_pc, response, result, hstate, io, saw, fetched, log>>
    /\ UNCHANGED <<faults, call_vars, main_vars>>

\* the map closure: tokio::spawn of the next episode's task
Admit ==
    /\ CanAdmit
    /\ wstate' = [wstate EXCEPT ![next_ep] = "spawned"]
    /\ in_progress' = in_progress \cup {next_ep}
    /\ next_ep' = next_ep + 1
    /\ UNCHANGED <<episodes, replace_existing, task_count, fs, fs0, run,
                   main_pc, response, result, hstate, io, saw, fetched, log>>
    /\ UNCHANGED <<faults, call_vars, main_vars>>

\* lines 105-107 and 117-119: the task's existence check
WorkerCheck(e) ==
    /\ wstate[e] = "spawned"
    /\ LET exists == Exists(fs, TruePath(episodes[e])) IN
       /\ saw' = [saw EXCEPT ![e] = IF exists THEN "file" ELSE "nothing"]
       /\ IF WorkerShouldFetch(replace_existing, exists)
          THEN /\ wstate' = [wstate EXCEPT ![e] = "fetching"]
               /\ fetched' = [fetched EXCEPT ![e] = TRUE]
               /\ log' = [log EXCEPT ![e] = @ \cup {"downloading"}]
               /\ UNCHANGED result
          ELSE /\ wstate' = [wstate EXCEPT ![e] = "finished"]
               /\ result' = [result EXCEPT ![e] = [kind |-> "ok", data |-> <<>>]]
               /\ log' = [log EXCEPT ![e] = @ \cup {"skipping_task"}]
               /\ UNCHANGED fetched
    /\ UNCHANGED <<episodes, replace_existing, task_count, fs, fs0, run,
                   main_pc, next_ep, in_progress, response, hstate, io>>
    /\ UNCHANGED <<faults, call_vars, main_vars>>

\* lines 109-114: send().await? and resp.bytes().await; the status of the
\* response is not looked at
TaskResult(r) ==
    IF r.kind = "response" THEN [kind |-> "ok", data |-> r.body]
    ELSE [kind |-> "reqwest_error"]

FetchReturn(e) ==
    /\ wstate[e] = "fetching"
    /\ \E r \in Responses(episodes[e]) :
        /\ r # MediaResponse(episodes[e]) => MayFail
        /\ faults' = IF r = MediaResponse(episodes[e]) THEN faults
                      ELSE faults + 1
        /\ response' = [response EXCEPT ![e] = r]
        /\ result' = [result EXCEPT ![e] = TaskResult(r)]
    /\ wstate' = [wstate EXCEPT ![e] = "finished"]
    /\ UNCHANGED <<episodes, replace_existing, task_count, fs, fs0, run,
                   main_pc, next_ep, in_progress, hstate, io, saw, fetched,
                   log>>
    /\ UNCHANGED <<call_vars, main_vars>>

\* the task is aborted or panics at its await point: its JoinHandle yields
\* a JoinError
TaskPanic(e) ==
    /\ wstate[e] = "fetching"
    /\ MayFail
    /\ faults' = faults + 1
    /\ wstate' = [wstate EXCEPT ![e] = "finished"]
    /\ result' = [result EXCEPT ![e] = [kind |-> "join_error"]]
    /\ UNCHANGED <<episodes, replace_existing, task_count, fs, fs0, run,
                   main_pc, next_ep, in_progress, response, hstate, io, saw,
                   fetched, log>>
    /\ UNCHANGED <<call_vars, main_vars>>

(***************************************************************************)
(* for_each closure (lines 125-170).                                       *)
(***************************************************************************)
\* a closure without the length test of lines 132-134
AfterMatch_NoLenTest(e) ==
    IF result[e].kind # "ok" THEN "returned"
    ELSE IF CommitShouldWrite(replace_existing,
                              Exists(fs, TruePath(episodes[e])))
         THEN "open" ELSE "returned"

\* where the closure stands after the match, the length test and the
\* existence test of line 141
AfterMatch(e) ==
    IF result[e].kind # "ok" THEN "returned"
    ELSE IF Len(result[e].data) = 0 THEN "returned"
    ELSE IF CommitShouldWrite(replace_existing,
                              Exists(fs, TruePath(episodes[e])))
         THEN "open" ELSE "returned"

MatchLog(e) ==
    IF result[e].kind = "reqwest_error" THEN {"reqwest_error"}
    ELSE IF result[e].kind = "join_error" THEN {"join_error"}
    ELSE IF Len(result[e].data) = 0 THEN {}
    ELSE IF AfterMatch(e) = "open" THEN {"commit"} ELSE {"skipping_commit"}

\* the buffer, filled as far as it goes, yields a finished task
CanDrain(e) ==
    /\ main_pc = "download"
    /\ HandlerIdle
    /\ ~BufferHasRoom \/ StreamExhausted
    /\ e \in in_progress
    /\ TaskReady(e)

\* the stream yields the result of a finished task and the closure runs up
\* to its first file operation
Drain(e) ==
    /\ CanDrain(e)
    /\ in_progress' = in_progress \ {e}
    /\ hstate' = [hstate EXCEPT ![e] = AfterMatch(e)]
    /\ log' = [log EXCEPT ![e] = @ \cup MatchLog(e)]
    /\ UNCHANGED <<episodes, replace_existing, task_count, fs, fs0, run,
                   main_pc, next_ep, wstate, response, result, io, saw,
                   fetched>>
    /\ UNCHANGED <<faults, call_vars, main_vars>>

\* lines 143-153
CommitOpen(e) ==
    /\ hstate[e] = "open"
    /\ \/ /\ fs' = OpenFs(fs, TmpPath(episodes[e]))
          /\ io' = [io EXCEPT ![e].open = "ok"]
          /\ hstate' = [hstate EXCEPT ![e] = "write"]
          /\ UNCHANGED <<log, faults>>
       \/ /\ MayFail
          /\ faults' = faults + 1
          /\ io' = [io EXCEPT ![e].open = "err"]
          /\ hstate' = [hstate EXCEPT ![e] = "returned"]
          /\ log' = [log EXCEPT ![e] = @ \cup {"io_error"}]
          /\ UNCHANGED fs
    /\ UNCHANGED <<episodes, replace_existing, task_count, fs0, run, main_pc,
                   next_ep, in_progress, wstate, response, result, saw,
                   fetched>>
    /\ UNCHANGED <<call_vars, main_vars>>

\* what file.write(&data) may return: Ok(n) for 1 <= n <= len, or Err
WriteResults(data) == {WriteOk(n) : n \in 1..Len(data)} \cup {WriteErr}

\* where the closure goes after write(): line 159, whatever write returned
AfterWrite(w) == "rename"

\* lines 155-157
CommitWrite(e) ==
    /\ hstate[e] = "write"
    /\ \E w \in WriteResults(result[e].data) :
        /\ w # WriteOk(Len(result[e].data)) => MayFail
        /\ faults' = IF w = WriteOk(Len(result[e].data)) THEN faults
                      ELSE faults + 1
        /\ io' = [io EXCEPT ![e].write = w]
        /\ hstate' = [hstate EXCEPT ![e] = AfterWrite(w)]
        /\ IF w = WriteErr
           THEN /\ log' = [log EXCEPT ![e] = @ \cup {"write_error"}]
                /\ UNCHANGED fs
           ELSE /\ fs' = WriteFs(fs, TmpPath(episodes[e]), result[e].data, w.n)
                /\ UNCHANGED log
    /\ UNCHANGED <<episodes, replace_existing, task_count, fs0, run, main_pc,
                   next_ep, in_progress, wstate, response, result, saw,
                   fetched>>
    /\ UNCHANGED <<call_vars, main_vars>>

\* lines 159-161
CommitRename(e) ==
    /\ hstate[e] = "rename"
    /\ \/ /\ Exists(fs, TmpPath(episodes[e]))
          /\ fs' = RenameFs(fs, TmpPath(episodes[e]), TruePath(episodes[e]))
          /\ io' = [io EXCEPT ![e].rename = "ok"]
          /\ UNCHANGED <<log, faults>>
       \/ /\ MayFail \/ ~Exists(fs, TmpPath(episodes[e]))
          /\ faults' = faults + 1
          /\ io' = [io EXCEPT ![e].rename = "err"]
          /\ log' = [log EXCEPT ![e] = @ \cup {"rename_error"}]
          /\ UNCHANGED fs
    /\ hstate' = [hstate EXCEPT ![e] = "returned"]
    /\ UNCHANGED <<episodes, replace_existing, task_count, fs0, run, main_pc,
                   next_ep, in_progress, wstate, response, result, saw,
                   fetched>>
    /\ UNCHANGED <<call_vars, main_vars>>

\* the stream is exhausted and the buffer empty
CanFinish ==
    /\ main_pc = "download"
    /\ HandlerIdle
    /\ StreamExhausted
    /\ in_progress = {}

\* lines 171-173
Finish ==
    /\ CanFinish
    /\ main_pc' = "done"
    /\ exit_status' = ExitOk
    /\ UNCHANGED <<episodes, replace_existing, task_count, fs, fs0, run,
                   next_ep, in_progress, wstate, response, result, hstate, io,
                   saw, fetched, log>>
    /\ UNCHANGED <<faults, call_vars, feed_response, rss_file>>

\* the program is started again on the same feed, flags and directory
Rerun ==
    /\ main_pc = "done"
    /\ run + 1 \in Runs
    /\ run' = run + 1
    /\ fs0' = fs
    /\ main_pc' = "download"
    /\ next_ep' = 1
    /\ in_progress' = {}
    /\ wstate' = FreshTasks(episodes).wstate
    /\ response' = FreshTasks(episodes).response
    /\ result' = FreshTasks(episodes).result
    /\ hstate' = FreshTasks(episodes).hstate
    /\ io' = FreshTasks(episodes).io
    /\ saw' = FreshTasks(episodes).saw
    /\ fetched' = FreshTasks(episodes).fetched
    /\ log' = FreshTasks(episodes).log
    /\ exit_status' = NoExit
    /\ UNCHANGED <<episodes, replace_existing, task_count, fs>>
    /\ UNCHANGED <<faults, call_vars, feed_response, rss_file>>

Next ==
    \/ Admit
    \/ \E e \in Eps : WorkerCheck(e)
    \/ \E e \in Eps : FetchReturn(e)
    \/ \E e \in Eps : TaskPanic(e)
    \/ \E e \in Eps : Drain(e)
    \/ \E e \in Eps : CommitOpen(e)
    \/ \E e \in Eps : CommitWrite(e)
    \/ \E e \in Eps : CommitRename(e)
    \/ Finish

Spec == Init /\ [][Next]_vars

NextRuns == Next \/ Rerun

\* both runs are made without --replace-existing
InitRuns == Init /\ ~replace_existing

SpecRuns == InitRuns /\ [][NextRuns]_vars

(***************************************************************************)
(* parse_rss (lines 203-233): one action per event read_event yields.      *)
(***************************************************************************)
\* what parse_item returns for the fragments of Items
ItemResults == {parse_item(txt) : txt \in Items}

\* lines 211-221: the start of an <item>; its fragment goes to parse_item
RssItem ==
    /\ rss_pc = "reading"
    /\ events_read < MaxFeedEvents
    /\ \E r \in ItemResults :
        /\ outcomes' = Append(outcomes, r)
        /\ IF r.ok
           THEN /\ list_of_events' = push_back(list_of_events, r.episode)
                /\ UNCHANGED <<parse_errors, rss_pc>>
           ELSE IF r.why = "panic"
           THEN /\ rss_pc' = "panic"
                /\ UNCHANGED <<parse_errors, list_of_events>>
           ELSE /\ parse_errors' = parse_errors + 1
                /\ UNCHANGED <<list_of_events, rss_pc>>
    /\ events_read' = events_read + 1
    /\ UNCHANGED <<item_vars, pipeline_vars, name_vars, main_vars>>

\* lines 212-214: the fragment of an <item> cannot be read to its end tag;
\* expect() panics
RssItemUnreadable ==
    /\ rss_pc = "reading"
    /\ events_read < MaxFeedEvents
    /\ rss_pc' = "panic"
    /\ events_read' = events_read + 1
    /\ UNCHANGED <<list_of_events, outcomes, parse_errors, item_vars,
                   pipeline_vars, name_vars, main_vars>>

\* line 228: any other event (another element, text, an empty <item/>)
RssOther ==
    /\ rss_pc = "reading"
    /\ events_read < MaxFeedEvents
    /\ events_read' = events_read + 1
    /\ UNCHANGED <<rss_pc, list_of_events, outcomes, parse_errors, item_vars,
                   pipeline_vars, name_vars, main_vars>>

\* lines 223 and 232: the end of the document
RssEof ==
    /\ rss_pc = "reading"
    /\ rss_pc' = "ok"
    /\ UNCHANGED <<list_of_events, outcomes, events_read, parse_errors,
                   item_vars, pipeline_vars, name_vars, main_vars>>

\* lines 224-227: the document is not well-formed
RssError ==
    /\ rss_pc = "reading"
    /\ rss_pc' = "err"
    /\ UNCHANGED <<list_of_events, outcomes, events_read, parse_errors,
                   item_vars, pipeline_vars, name_vars, main_vars>>

\* the pipeline is not running
PipelineIdle ==
    /\ episodes = <<>>
    /\ replace_existing = FALSE
    /\ task_count = 1
    /\ fs = Dir(<<>>, FALSE, FALSE)
    /\ fs0 = fs
    /\ run = 1
    /\ main_pc = "parse"
    /\ next_ep = 1
    /\ in_progress = {}
    /\ wstate = <<>>
    /\ response = <<>>
    /\ result = <<>>
    /\ hstate = <<>>
    /\ io = <<>>
    /\ saw = <<>>
    /\ fetched = <<>>
    /\ log = <<>>
    /\ faults = 0

InitParse ==
    /\ PipelineIdle
    /\ NameIdle
    /\ MainIdle
    /\ ItemIdle
    /\ rss_pc = "reading"
    /\ list_of_events = <<>>
    /\ outcomes = <<>>
    /\ events_read = 0
    /\ parse_errors = 0

NextParse == RssItem \/ RssItemUnreadable \/ RssOther \/ RssEof \/ RssError

SpecParse == InitParse /\ [][NextParse]_vars

(***************************************************************************)
(* parse_item (lines 235-291) on its own: called on any fragment.          *)
(***************************************************************************)
InitItem ==
    /\ PipelineIdle
    /\ NameIdle
    /\ MainIdle
    /\ RssIdle
    /\ item_pc = "called"
    /\ item_xml \in Items
    /\ item_result = None

ParseItem ==
    /\ item_pc = "called"
    /\ item_result' = parse_item(item_xml)
    /\ item_pc' = "returned"
    /\ UNCHANGED <<item_xml, rss_vars, pipeline_vars, name_vars, main_vars>>

SpecItem == InitItem /\ [][ParseItem]_vars

(***************************************************************************)
(* main() as a whole (lines 62-174): the feed is fetched, a task is        *)
(* spawned to store it as rss.xml, the feed is parsed, the episodes go     *)
(* through the pipeline and the process exits.                             *)
(***************************************************************************)
\* what reqwest::get(rss_url) and text() hand back: the text of a response
\* of any status, or a reqwest::Error
FeedResponses ==
    {[kind |-> "response", status |-> st] : st \in {"success", "nonsuccess"}}
    \cup {[kind |-> "error"]}

\* lines 69-93: the `?` of lines 70 and 72 returns the error from main; a
\* response of any status is kept, the rss.xml task is spawned and parse_rss
\* is called
FeedFetch ==
    /\ main_pc = "fetch_feed"
    /\ \E r \in FeedResponses :
        /\ feed_response' = r
        /\ IF r.kind = "error"
           THEN /\ main_pc' = "exited"
                /\ exit_status' = ExitErr
                /\ UNCHANGED <<rss_pc, rss_file>>
           ELSE /\ main_pc' = "parse"
                /\ rss_pc' = "reading"
                /\ rss_file' = "spawned"
                /\ UNCHANGED exit_status
    /\ UNCHANGED <<episodes, replace_existing, task_count, fs, fs0, run,
                   next_ep, in_progress, wstate, response, result, hstate, io,
                   saw, fetched, log, faults>>
    /\ UNCHANGED <<list_of_events, outcomes, events_read, parse_errors,
                   item_vars, name_vars>>

\* lines 76-93: the task that stores the feed; it runs at any time before
\* the process exits, and its failures are logged only
RssFileTask ==
    /\ rss_file = "spawned"
    /\ exit_status = NoExit
    /\ \/ /\ MayFail
          /\ faults' = faults + 1
          /\ rss_file' = "open_err"
          /\ UNCHANGED fs
       \/ /\ MayFail
          /\ faults' = faults + 1
          /\ rss_file' = "write_err"
          /\ fs' = OpenFs(fs, RssPath)
       \/ \E n \in 1..Len(FeedBytes) :
            /\ n < Len(FeedBytes) => MayFail
            /\ faults' = IF n < Len(FeedBytes) THEN faults + 1 ELSE faults
            /\ rss_file' = "written"
            /\ fs' = WriteFs(OpenFs(fs, RssPath), RssPath, FeedBytes, n)
    /\ UNCHANGED <<episodes, replace_existing, task_count, fs0, run, main_pc,
                   next_ep, in_progress, wstate, response, result, hstate, io,
                   saw, fetched, log>>
    /\ UNCHANGED <<call_vars, feed_response, exit_status>>

\* lines 95-99: parse_rss has returned or panicked; unwrap() panics on Err,
\* the list of an Ok goes to the stream
ParseReturn ==
    /\ main_pc = "parse"
    /\ rss_pc \in {"ok", "err", "panic"}
    /\ IF rss_pc = "ok"
       THEN /\ main_pc' = "download"
            /\ episodes' = list_of_events
            /\ wstate' = FreshTasks(list_of_events).wstate
            /\ response' = FreshTasks(list_of_events).response
            /\ result' = FreshTasks(list_of_events).result
            /\ hstate' = FreshTasks(list_of_events).hstate
            /\ io' = FreshTasks(list_of_events).io
            /\ saw' = FreshTasks(list_of_events).saw
            /\ fetched' = FreshTasks(list_of_events).fetched
            /\ log' = FreshTasks(list_of_events).log
            /\ list_of_events' = <<>>
            /\ outcomes' = <<>>
            /\ events_read' = 0
            /\ UNCHANGED exit_status
       ELSE /\ main_pc' = "exited"
            /\ exit_status' = ExitPanic
            /\ UNCHANGED <<episodes, wstate, response, result, hstate, io,
                           saw, fetched, log, list_of_events, outcomes,
                           events_read>>
    /\ UNCHANGED <<replace_existing, task_count, fs, fs0, run, next_ep,
                   in_progress, faults, rss_pc, parse_errors, item_vars,
                   name_vars, feed_response, rss_file>>

InitMain ==
    /\ ParserIdle
    /\ NameIdle
    /\ MainIdle
    /\ episodes = <<>>
    /\ replace_existing \in BOOLEAN
    /\ task_count \in 1..MaxTasks
    /\ fs = Dir(<<>>, FALSE, FALSE)
    /\ fs0 = fs
    /\ run = 1
    /\ main_pc = "fetch_feed"
    /\ next_ep = 1
    /\ in_progress = {}
    /\ wstate = <<>>
    /\ response = <<>>
    /\ result = <<>>
    /\ hstate = <<>>
    /\ io = <<>>
    /\ saw = <<>>
    /\ fetched = <<>>
    /\ log = <<>>
    /\ faults = 0

NextMain ==
    \/ FeedFetch
    \/ RssFileTask
    \/ NextParse
    \/ ParseReturn
    \/ Next

SpecMain == InitMain /\ [][NextMain]_vars

(***************************************************************************)
(* Properties of the download pipeline.                                    *)
(***************************************************************************)
FinalPaths == {TruePath(episodes[e]) : e \in Eps}

\* tasks that were spawned and have not finished their fetch
InFlight == {e \in Eps : wstate[e] \in {"spawned", "fetching"}}

\* C1: with task_count = K >= 1, at no instant are more than K episode tasks
\* started and not yet finished, also when the feed has more than K episodes.
C1_ConcurrencyCap == Cardinality(InFlight) <= task_count

C1_Witness ==
    /\ Len(episodes) > task_count
    /\ Cardinality({e \in Eps : wstate[e] = "fetching"}) = task_count
    /\ ~StreamExhausted

\* the complete payloads fetched in this run for the final path p
PayloadsFor(p) ==
    {response[e].body : e \in {x \in Eps : /\ TruePath(episodes[x]) = p
                                           /\ response[x].kind = "response"}}

\* C2: atomicity of commit. In every state the final path of an episode does
\* not exist, or holds its pre-run content, or holds a complete fetched
\* payload; a truncated payload is never observable there.
C2_Atomicity ==
    \A p \in FinalPaths :
        \/ ~Exists(fs, p)
        \/ fs[p] = fs0[p]
        \/ fs[p] \in PayloadsFor(p)

\* C3: the rename is attempted only after the temp file was opened and the
\* write succeeded: never after a failed open or a failed write.
C3_RenameOnlyAfterWrite ==
    \A e \in Eps :
        io[e].rename # "none" => io[e].open = "ok" /\ io[e].write.kind = "ok"

\* C4: an episode whose fetch ends with a non-success HTTP status is handled
\* as a failed fetch: an error is logged for it and nothing is opened, written
\* or renamed for it.
C4_NonSuccessIsFailure ==
    \A e \in Eps :
        (response[e].kind = "response" /\ response[e].status = "nonsuccess")
        => /\ hstate[e] \in {"none", "returned"}
           /\ io[e] = NoIo
           /\ hstate[e] = "returned" => "reqwest_error" \in log[e]

\* C5: skip-if-exists. When replace_existing is false and the task of an
\* episode found a file at its final path, no fetch is issued for the episode
\* and no step of the run changes the file at that path.
C5_SkipIfExists ==
    [][\A e \in Eps :
         (~replace_existing /\ saw'[e] = "file")
         => /\ ~fetched'[e]
            /\ saw[e] = "file" =>
                 fs'[TruePath(episodes[e])] = fs[TruePath(episodes[e])]]_vars

C5_Witness ==
    \E e \in Eps :
        /\ ~replace_existing
        /\ saw[e] = "file"
        /\ ~Exists(fs0, TruePath(episodes[e]))
        /\ hstate[e] = "returned"
        /\ main_pc = "done"

(***************************************************************************)
(* Two runs on the same directory (SpecRuns, replace_existing = false).    *)
(* In the second run fs0 is the directory the first run left.              *)
(***************************************************************************)
\* C6 as stated: the second run fetches nothing for an episode whose final
\* file exists after the first run, and the files after the second run are
\* the files after the first run.
C6_IdempotenceAsStated ==
    run = 2 =>
        /\ \A e \in Eps : Exists(fs0, TruePath(episodes[e])) => ~fetched[e]
        /\ fs = fs0

\* C6 (amended): the second run fetches nothing for an episode whose final
\* file exists after the first run and leaves that file as it is; when the
\* final file of every episode exists after the first run, the files after
\* the second run are the files after the first run.
C6_Idempotence ==
    run = 2 =>
        /\ \A e \in Eps :
             Exists(fs0, TruePath(episodes[e]))
             => /\ ~fetched[e]
                /\ fs[TruePath(episodes[e])] = fs0[TruePath(episodes[e])]
        /\ (\A e \in Eps : Exists(fs0, TruePath(episodes[e]))) => fs = fs0

C6_Witness ==
    /\ run = 2
    /\ main_pc = "done"
    /\ Len(episodes) = NumEpisodes
    /\ \A e \in Eps : /\ fs0[TruePath(episodes[e])] = MediaOf(episodes[e].title)
                      /\ saw[e] = "file"

(***************************************************************************)
(* The synchronous one-at-a-time run: episode after episode, in feed       *)
(* order, each one checked, fetched and committed before the next starts.  *)
(***************************************************************************)
\* the directory after the closure of lines 127-165 ran to its end on f
CommitFs(f, ep, data, o) ==
    IF Len(data) = 0 THEN f
    ELSE IF ~CommitShouldWrite(replace_existing, Exists(f, TruePath(ep)))
    THEN f
    ELSE IF o.open = "err" THEN f
    ELSE LET f1 == OpenFs(f, TmpPath(ep))
             f2 == IF o.write.kind = "ok"
                   THEN WriteFs(f1, TmpPath(ep), data, o.write.n) ELSE f1
         IN  IF o.rename = "ok" THEN RenameFs(f2, TmpPath(ep), TruePath(ep))
             ELSE f2

\* the directory after one episode went through task and closure on f
SyncEpisode(f, ep, r, o) ==
    IF ~WorkerShouldFetch(replace_existing, Exists(f, TruePath(ep))) THEN f
    ELSE IF TaskResult(r).kind = "ok" /\ r.kind # "abort"
         THEN CommitFs(f, ep, r.body, o) ELSE f

\* the fetch results and file outcomes the run has shown for episode e; what
\* it has not shown is left open
FetchResultsOf(e) ==
    IF result[e].kind = "join_error" THEN {[kind |-> "abort"]}
    ELSE IF response[e] # None THEN {response[e]}
    ELSE Responses(episodes[e]) \cup {[kind |-> "abort"]}

FileOutcomesOf(e) ==
    [open : IF io[e].open = "none" THEN {"ok", "err"} ELSE {io[e].open},
     write : IF io[e].write = None
             THEN WriteResults(MediaOf(episodes[e].title)) ELSE {io[e].write},
     rename : IF io[e].rename = "none" THEN {"ok", "err"} ELSE {io[e].rename}]

RECURSIVE SyncRun(_, _)
\* the directories the synchronous run can end with, from the directories F
\* reached before episode i
SyncRun(F, i) ==
    IF i > Len(episodes) THEN F
    ELSE SyncRun({SyncEpisode(f, episodes[i], r, o) :
                     f \in F, r \in FetchResultsOf(i), o \in FileOutcomesOf(i)},
                 i + 1)

\* no two episodes of the feed share timestamp and sanitized title
DistinctNames ==
    \A i, j \in Eps :
        i # j => <<episodes[i].datetime, SanitizeTitle(episodes[i].title)>>
                 # <<episodes[j].datetime, SanitizeTitle(episodes[j].title)>>

\* C7 as stated: whatever the completion order, the run ends with the
\* directory of the synchronous run with the same fetch and file results.
C7_OrderIndependenceAsStated ==
    main_pc = "done" => SyncRun({fs0}, 1) = {fs}

\* C7 (amended): when no two episodes share timestamp and sanitized title,
\* every completion order ends with the directory of the synchronous run
\* with the same per-episode fetch and file results.
C7_OrderIndependence ==
    (main_pc = "done" /\ DistinctNames) => SyncRun({fs0}, 1) = {fs}

C7_Witness ==
    /\ main_pc = "done"
    /\ DistinctNames
    /\ task_count >= 2
    /\ Len(episodes) >= 2
    /\ \A e \in Eps : io[e].rename = "ok"
    /\ \E e \in Eps : io[e].write # WriteOk(Len(result[e].data))

(***************************************************************************)
(* Failure isolation and progress.                                         *)
(***************************************************************************)
FailedFetch(e) ==
    e \in Eps /\ result[e].kind \in {"reqwest_error", "join_error"}

AllDrained ==
    \A e \in Eps : wstate[e] = "finished" /\ hstate[e] = "returned"

\* steps episode e still has before its closure has returned
StepsLeft(e) ==
    CASE wstate[e] = "unspawned" -> 7
      [] wstate[e] = "spawned" -> 6
      [] wstate[e] = "fetching" -> 5
      [] hstate[e] = "none" -> 4
      [] hstate[e] = "open" -> 3
      [] hstate[e] = "write" -> 2
      [] hstate[e] = "rename" -> 1
      [] OTHER -> 0

RECURSIVE SumStepsLeft(_)
SumStepsLeft(n) == IF n = 0 THEN 0 ELSE StepsLeft(n) + SumStepsLeft(n - 1)

\* a natural number that bounds the number of steps the run can still take
Measure == SumStepsLeft(Len(episodes)) + (IF main_pc = "done" THEN 0 ELSE 1)

\* a step of main, of a task or of the closure is possible
CanStep ==
    \/ CanAdmit
    \/ CanFinish
    \/ \E e \in Eps :
          \/ wstate[e] \in {"spawned", "fetching"}
          \/ CanDrain(e)
          \/ hstate[e] \in {"open", "write", "rename"}

\* C8: a failed fetch (transport error or abort of the task) changes no
\* sibling task; every episode enters the buffer once and is drained once;
\* once a fetch has failed the run is never stuck before every episode is
\* drained and main has returned; and every step brings the end nearer (it
\* lowers Measure), so a run that keeps stepping admits and drains every
\* episode and terminates.
C8_FailureIsolation ==
    /\ [][\A e \in Eps :
            (FailedFetch(e)' /\ ~FailedFetch(e))
            => \A d \in Eps \ {e} :
                  /\ wstate'[d] = wstate[d]
                  /\ result'[d] = result[d]
                  /\ (d \in in_progress') = (d \in in_progress)]_vars
    /\ [][\A e \in Eps :
            /\ (e \in in_progress' /\ e \notin in_progress)
               => wstate[e] = "unspawned"
            /\ (e \in in_progress /\ e \notin in_progress')
               => hstate[e] = "none" /\ hstate'[e] # "none"]_vars
    /\ [][Measure' < Measure]_vars
    /\ []((\E e \in Eps : FailedFetch(e))
          => \/ main_pc = "done" /\ AllDrained
             \/ main_pc # "done" /\ CanStep)

C8_Witness ==
    /\ main_pc = "done"
    /\ AllDrained
    /\ \E e, d \in Eps : FailedFetch(e) /\ io[d].rename = "ok"

(***************************************************************************)
(* Properties of the parser (SpecParse).                                   *)
(***************************************************************************)
RECURSIVE AcceptedEpisodes(_)
\* the Episodes of the accepted items of a document, in document order
AcceptedEpisodes(rs) ==
    IF rs = <<>> THEN <<>>
    ELSE (IF Head(rs).ok THEN <<Head(rs).episode>> ELSE <<>>)
         \o AcceptedEpisodes(Tail(rs))

RejectedCount(rs) == Cardinality({i \in 1..Len(rs) : ~rs[i].ok})

\* C9: partial-failure containment. While parse_rss scans a well-formed
\* document and when it returns, its list holds exactly the Episodes of the
\* items parse_item accepted, in document order; a rejected item is logged,
\* does not end the scan and leaves the Episodes of the other items alone.
C9_PartialFailureContainment ==
    rss_pc \in {"reading", "ok"} =>
        /\ list_of_events = AcceptedEpisodes(outcomes)
        /\ parse_errors = RejectedCount(outcomes)

C9_Witness ==
    /\ rss_pc = "ok"
    /\ Len(outcomes) = 2
    /\ ~outcomes[1].ok
    /\ outcomes[2].ok
    /\ Len(list_of_events) = 1

SeenTitle(item) == \E i \in 1..Len(item) : item[i].tag = "title"

SeenValidPubDate(item) ==
    \E i \in 1..Len(item) : item[i].tag = "pubDate" /\ item[i].text = ValidDate

SeenEnclosureUrl(item) ==
    \E i \in 1..Len(item) :
        /\ item[i].tag = "enclosure"
        /\ \E k \in 1..Len(item[i].attributes) :
              item[i].attributes[k].key = "url"

\* C10: no partially-valid Episode. parse_item returns an Episode only for a
\* fragment in which a title element, a pubDate element with an RFC-2822
\* text and an enclosure element with a url attribute were all seen; when
\* one of the three is missing it returns a failure (it does not unwrap a
\* None); an Episode it returns has its three fields set.
C10_NoPartialEpisode ==
    item_pc = "returned" =>
        LET all3 == /\ SeenTitle(item_xml)
                    /\ SeenValidPubDate(item_xml)
                    /\ SeenEnclosureUrl(item_xml)
        IN  /\ item_result.ok
               => /\ all3
                  /\ item_result.episode \in
                       [url : {<<"u">>, <<>>}, title : {<<"a">>, <<>>},
                        datetime : {parse_date_time(ValidDate).datetime}]
            /\ ~all3 => (/\ ~item_result.ok
                         /\ item_result.why \in
                              {"missing", "date", "attribute", "xml"})

C10_Witness ==
    /\ item_pc = "returned"
    /\ Len(item_xml) = MaxItemLen
    /\ SeenTitle(item_xml)
    /\ SeenEnclosureUrl(item_xml)
    /\ ~SeenValidPubDate(item_xml)
    /\ \A i \in 1..Len(item_xml) : item_xml[i].tag \notin {"error", "pubDate"}
    /\ item_result = Failure("missing")

\* C11: every Episode parse_item returns has a non-empty url and a
\* non-empty title, also for a title element with empty text and for an
\* enclosure whose url attribute is empty.
C11_NonEmptyFields ==
    (item_pc = "returned" /\ item_result.ok)
    => /\ Len(item_result.episode.url) > 0
       /\ Len(item_result.episode.title) > 0

(***************************************************************************)
(* episode_to_filename (lines 176-189) on its own: called on any title.    *)
(***************************************************************************)
\* the characters the function replaces, and one it keeps
NameChars == {" ", ":", "/", "\"", "'", "*", "E"}

\* "Ep 1: A/B *"
SampleTitle == <<"E", "p", " ", "1", ":", " ", "A", "/", "B", " ", "*">>

NameTitles ==
    UNION {[1..n -> NameChars] : n \in 0..MaxTitleLen} \cup {SampleTitle}

\* seconds since the epoch, before and after it
NameTimestamps == {-1, 0, 1700000000}

InitName ==
    /\ PipelineIdle
    /\ MainIdle
    /\ ParserIdle
    /\ name_pc = "called"
    /\ name_episode \in
         {Episode(<<"u">>, t, d) : t \in NameTitles, d \in NameTimestamps}
    /\ name_result = <<>>

EpisodeToFilename ==
    /\ name_pc = "called"
    /\ name_result' = episode_to_filename(name_episode)
    /\ name_pc' = "returned"
    /\ UNCHANGED <<name_episode, parser_vars, pipeline_vars, main_vars>>

SpecName == InitName /\ [][EpisodeToFilename]_vars

\* the filename policy, character by character
PolicyChar(c) ==
    CASE c = " " -> <<"_">>
      [] c = ":" -> <<"-">>
      [] c = "/" -> <<"-">>
      [] c = "\"" -> <<>>
      [] c = "'" -> <<>>
      [] c = "*" -> <<"a">>
      [] OTHER -> <<c>>

RECURSIVE PolicyName(_)
PolicyName(title) ==
    IF title = <<>> THEN <<>>
    ELSE PolicyChar(Head(title)) \o PolicyName(Tail(title))

\* the pair the policy asks for: <timestamp>-<sanitized title> with the two
\* extensions
PolicyPair(episode) ==
    LET base == to_string(episode.datetime) \o <<"-">>
                \o PolicyName(episode.title)
    IN  <<base \o <<".part">>, base \o <<".mp3">>>>

\* Ep_1--A-Ba
SampleNameAsStated == <<"E", "p", "_", "1", "-", "-", "A", "-", "B", "a">>

\* Ep_1-_A-B_a
SampleName == <<"E", "p", "_", "1", "-", "_", "A", "-", "B", "_", "a">>

\* C12 as stated: episode_to_filename returns the pair of the filename
\* policy, and the title "Ep 1: A/B *" sanitizes to Ep_1--A-Ba.
C12_FilenamePolicyAsStated ==
    name_pc = "returned" =>
        /\ name_result = PolicyPair(name_episode)
        /\ name_episode.title = SampleTitle
           => name_result[2] = to_string(name_episode.datetime) \o <<"-">>
                               \o SampleNameAsStated \o <<".mp3">>

\* C12 (amended): episode_to_filename returns (base + ".part", base + ".mp3")
\* where base is <timestamp>-<sanitized title> and the sanitized title has
\* every space replaced by '_', every ':' and '/' by '-', every quote
\* removed and every '*' replaced by 'a'; the title "Ep 1: A/B *" sanitizes
\* to Ep_1-_A-B_a.
C12_FilenamePolicy ==
    name_pc = "returned" =>
        /\ name_result = PolicyPair(name_episode)
        /\ name_episode.title = SampleTitle
           => /\ name_result[1] = to_string(name_episode.datetime) \o <<"-">>
                                  \o SampleName \o <<".part">>
              /\ name_result[2] = to_string(name_episode.datetime) \o <<"-">>
                                  \o SampleName \o <<".mp3">>

C12_Witness ==
    /\ name_pc = "returned"
    /\ name_episode.title = SampleTitle
    /\ name_episode.datetime = 1700000000
    /\ name_result[2] =
         <<"1", "7", "0", "0", "0", "0", "0", "0", "0", "0", "-">>
         \o SampleName \o <<".mp3">>

(***************************************************************************)
(* Failure accounting, exit status and frame properties of the pipeline.   *)
(***************************************************************************)
\* the log lines that report a failure
FailureLines ==
    {"reqwest_error", "join_error", "io_error", "write_error", "rename_error"}

\* the episode ended in a transport failure (connection error, non-success
\* response, aborted task) or in an I/O failure (open, write or rename)
IsolatedFailure(e) ==
    \/ result[e].kind \in {"reqwest_error", "join_error"}
    \/ response[e].kind = "response" /\ response[e].status = "nonsuccess"
    \/ io[e].open = "err"
    \/ io[e].write.kind = "err"
    \/ io[e].write.kind = "ok" /\ io[e].write.n < Len(result[e].data)
    \/ io[e].rename = "err"

\* C13: failure accounting. A run over N episodes of which M end in an
\* isolated failure completes with exactly N - M episode files at their final
\* paths and exactly M logged failures, one per failed episode.
C13_FailureAccounting ==
    main_pc = "done" =>
        LET M == Cardinality({e \in Eps : IsolatedFailure(e)}) IN
        /\ Cardinality({p \in FinalPaths : Exists(fs, p)}) = Len(episodes) - M
        /\ \A e \in Eps :
             Cardinality(log[e] \cap FailureLines)
             = IF IsolatedFailure(e) THEN 1 ELSE 0

\* the feed document was not retrieved: a transport error or a response
\* with a non-success status
FeedFetchFailed ==
    \/ feed_response.kind = "error"
    \/ feed_response.kind = "response" /\ feed_response.status = "nonsuccess"

\* parse_rss returned Err or panicked on the document
FeedParseFailed == rss_pc \in {"err", "panic"}

\* C14: exit behaviour. The process ends with a non-zero exit status when
\* the feed fetch failed or parse_rss failed on the document, and with exit
\* status zero otherwise; item parse failures, transport failures, join
\* errors and open / write / rename failures do not change the exit status.
C14_ExitBehaviour ==
    exit_status # NoExit =>
        ((exit_status # ExitOk) <=> (FeedFetchFailed \/ FeedParseFailed))

\* the task of e handed zero bytes to the closure
ZeroBytes(e) == result[e].kind = "ok" /\ Len(result[e].data) = 0

\* C15: a fetch result of zero bytes is a no-op at commit time. The closure
\* returns for it without opening or writing the temp path and without
\* renaming, and the step in which it handles the result leaves the output
\* directory as it is.
C15_ZeroBytesNoOp ==
    /\ [](\A e \in Eps :
            ZeroBytes(e) => io[e] = NoIo /\ hstate[e] \in {"none", "returned"})
    /\ [][\A e \in Eps :
            (ZeroBytes(e) /\ hstate'[e] # hstate[e])
            => hstate'[e] = "returned" /\ fs' = fs]_vars

C15_Witness ==
    /\ main_pc = "done"
    /\ ~replace_existing
    /\ Len(episodes) = NumEpisodes
    /\ \A e \in Eps :
          /\ saw[e] = "file"
          /\ ~fetched[e]
          /\ ZeroBytes(e)
          /\ hstate[e] = "returned"
    /\ fs = fs0

\* the closure takes up the non-empty result of e in this step
CommitStarts(e) ==
    /\ hstate[e] = "none"
    /\ hstate'[e] # "none"
    /\ result[e].kind = "ok"
    /\ Len(result[e].data) > 0

\* C16: commit-time recheck. When replace_existing is false and a file is at
\* the final path when the closure takes up the result of an episode, also a
\* file that appeared after the task's own check, the closure returns without
\* touching the output directory: nothing is opened, written or renamed for
\* the episode, the temp path is as it was and the final path keeps its
\* content.
C16_CommitRecheck ==
    /\ [][\A e \in Eps :
            (/\ CommitStarts(e)
             /\ ~replace_existing
             /\ Exists(fs, TruePath(episodes[e])))
            => /\ hstate'[e] = "returned"
               /\ "skipping_commit" \in log'[e]
               /\ fs' = fs]_vars
    /\ [](\A e \in Eps :
            "skipping_commit" \in log[e]
            => io[e] = NoIo /\ hstate[e] = "returned")

C16_Witness ==
    \E e, d \in Eps :
        /\ e # d
        /\ ~replace_existing
        /\ saw[e] = "nothing"
        /\ fetched[e]
        /\ "skipping_commit" \in log[e]
        /\ io[d].rename = "ok"
        /\ fs[TruePath(episodes[e])] = MediaOf(episodes[d].title)
        /\ ~Exists(fs, TmpPath(episodes[e]))
        /\ main_pc = "done"

\* the task of episode e has been spawned
Started(e) == wstate[e] # "unspawned"

\* C17: admission order. The tasks are spawned in the order of the list
\* parse_rss returned: for i < j the task of episode j is never spawned
\* before the task of episode i, whatever the order in which fetches end.
C17_AdmissionOrder ==
    /\ [](\A i, j \in Eps : (i < j /\ Started(j)) => Started(i))
    /\ [][\A j \in Eps :
            (~Started(j) /\ Started(j)')
            => /\ j = next_ep
               /\ \A i \in Eps : i < j => Started(i)]_vars

C17_Witness ==
    /\ Len(episodes) >= 2
    /\ wstate[1] = "fetching"
    /\ wstate[2] = "finished"
    /\ hstate[2] = "returned"
    /\ io[2].rename = "ok"

\* C18: exact content after a successful commit. When the open, the write of
\* the whole payload and the rename of an episode have all succeeded, the
\* file at its final path holds exactly the fetched payload, whatever a file
\* at the temp path held before the commit.
C18_ExactContent ==
    [][\A e \in Eps :
         (/\ io[e].rename = "none"
          /\ io'[e].rename = "ok"
          /\ io[e].open = "ok"
          /\ io[e].write = WriteOk(Len(result[e].data)))
         => fs'[TruePath(episodes[e])] = result[e].data]_vars

\* episodes whose result the closure is committing: between the test of
\* line 141 and the end of the rename
Committing == {e \in Eps : hstate[e] \in {"open", "write", "rename"}}

\* C19: commits are serialized. At most one commit (open, write, rename) is
\* in progress at any time; when two episodes with the same temp and final
\* names both brought a payload and one of them was renamed to the final
\* path, the final file holds the whole payload of exactly one of them.
C19_CommitsSerialized ==
    /\ Cardinality(Committing) <= 1
    /\ main_pc = "done" =>
         \A e, d \in Eps :
            (/\ e # d
             /\ TruePath(episodes[e]) = TruePath(episodes[d])
             /\ result[e].kind = "ok" /\ Len(result[e].data) > 0
             /\ result[d].kind = "ok" /\ Len(result[d].data) > 0
             /\ io[e].rename = "ok" \/ io[d].rename = "ok")
            => fs[TruePath(episodes[e])] \in {result[e].data, result[d].data}

====
